---- MODULE Spec2Model ----
(***************************************************************************)
(* Project provisioning and key custody: projectServiceFactory of          *)
(* backend/src/services/project/project-service.ts.                        *)
(*                                                                         *)
(* The relational store is one record of tables (db).  A call of the       *)
(* service occupies a slot of `calls`; createProject and deleteProject     *)
(* run in steps (one per await group) and keep their uncommitted writes in *)
(* the slot's tx until the transaction commits or rolls back.              *)
(***************************************************************************)
EXTENDS Integers, Sequences, FiniteSets, TLC

(* ------------------------------ bounds --------------------------------- *)
\* how many createProject transactions commit (each keeps the ids it drew)
MaxCreates == 2
\* how many calls patch a project or enqueue an upgrade
MaxWrites == 1

(* ----------------------------- constants ------------------------------- *)
\* the slots of the calls in flight
Calls == {"c1", "c2"}
Orgs == {"o1"}
\* TCreateProjectDTO.actorOrgId is optional; TDeleteProjectDTO.actorOrgId: string | undefined
Undefined == "undefined"
Null == "null"

USER == "user"
IDENTITY == "identity"
Users == {"u1", "u2", "u3"}
Identities == {"i1", "i2", "i3"}
Actors == Users \cup Identities
ActorType(a) == IF a \in Users THEN USER ELSE IDENTITY

\* ProjectMembershipRole
Admin == "admin"
Member == "member"
Custom == "custom"
V2 == "V2"

DEFAULT_PROJECT_ENVS ==
  << [name |-> "Development", slug |-> "dev"],
     [name |-> "Staging", slug |-> "staging"],
     [name |-> "Production", slug |-> "prod"] >>
ROOT_FOLDER_NAME == "root"

(* ------------------- organization permissions (casl) ------------------- *)
CreateWorkspace == "create:workspace"
ReadMember == "read:member"
\* the rule set of the built-in organization role Member
MemberRolePermission == {CreateWorkspace, ReadMember}
\* an organization role: a built-in one, or a custom one with its record
OrgRoles ==
  [ u1 |-> [role |-> "admin", customRole |-> Null, permission |-> {CreateWorkspace, ReadMember, "delete:workspace"}],
    u2 |-> [role |-> "custom", customRole |-> "r-viewer", permission |-> {ReadMember}],
    u3 |-> [role |-> "member", customRole |-> Null, permission |-> MemberRolePermission],
    i1 |-> [role |-> "member", customRole |-> Null, permission |-> MemberRolePermission],
    i2 |-> [role |-> "custom", customRole |-> "r-creator", permission |-> {CreateWorkspace}],
    i3 |-> [role |-> "custom", customRole |-> "r-operator", permission |-> {CreateWorkspace, ReadMember}] ]

\* permissionService.getOrgPermission(actor, actorId, orgId, ...): the actor's rules
getOrgPermission(actorId, orgId) == OrgRoles[actorId].permission

\* permissionService.getOrgPermissionByRole(role, orgId): a built-in role has
\* no custom role record
getOrgPermissionByRole(role, orgId) ==
  IF role = "member"
  THEN [permission |-> MemberRolePermission, role |-> Null]
  ELSE IF role = "admin"
  THEN [permission |-> OrgRoles["u1"].permission, role |-> Null]
  ELSE [permission |-> {ReadMember}, role |-> role]

\* @app/lib/casl: every rule of permissions2 is a rule of permissions1
isAtLeastAsPrivileged(permissions1, permissions2) ==
  /\ permissions2 \subseteq permissions1
  /\ Cardinality(permissions1) >= Cardinality(permissions2)

\* userDAL.findUserEncKeyByUserId: the users that registered encryption keys
UsersWithEncKeys == {"u1", "u2"}
\* identityOrgMembershipDAL.findOne({identityId, orgId})
IdentityOrgMemberships == Identities

(* ----------------------- project permissions --------------------------- *)
DeleteProjectCap == "delete:project"
EditSettings == "edit:settings"
ReadSecrets == "read:secrets"
ProjectCaps == {DeleteProjectCap, EditSettings, ReadSecrets}
\* what permissionService.getProjectPermission can answer: it throws (the
\* actor has no access to the project), or it returns the actor's rules (a
\* custom role may carry none of these) and hasRole; the Admin role carries
\* every rule
ProjectPermissions ==
  { [throws |-> TRUE, can |-> {}, admin |-> FALSE],
    [throws |-> FALSE, can |-> {}, admin |-> FALSE],
    [throws |-> FALSE, can |-> {ReadSecrets}, admin |-> FALSE],
    [throws |-> FALSE, can |-> {ReadSecrets, EditSettings}, admin |-> FALSE],
    [throws |-> FALSE, can |-> ProjectCaps, admin |-> FALSE],
    [throws |-> FALSE, can |-> ProjectCaps, admin |-> TRUE] }
\* the answers as an operation sees them that takes permission and leaves
\* hasRole: const { permission } = await permissionService.getProjectPermission(...)
PermissionOnly == {q \in ProjectPermissions : ~q.admin}

\* hasRole answers yes to every role
hasRole_Always(permission, role) == TRUE

\* hasRole(role) of the answer of getProjectPermission
hasRole(permission, role) == role = Admin /\ permission.admin

\* a call that has not asked for the actor's project permission
NotAsked == [throws |-> FALSE, can |-> {"none"}, admin |-> FALSE]

\* throwUnlessCan left out: no rule is asked for
throwUnlessCan_Never(rules, cap) == "none"

\* casl: ForbiddenError.from(permission).throwUnlessCan(action, subject)
throwUnlessCan(rules, cap) ==
  IF cap \in rules THEN "none" ELSE "ForbiddenError"

(* ------------------------------ licensing ------------------------------ *)
NoLimit == -1
Absent == -1
\* plan.workspaceLimit of the organization's plan (NoLimit stands for null)
WorkspaceLimits == {1, NoLimit}

(* ------------------------------ crypto --------------------------------- *)
\* a private key determines its public key
PublicKey(userId) == <<"pub", userId>>
PrivateKey(userId) == <<"priv", PublicKey(userId)>>
PublicOf(privateKey) == privateKey[2]

\* encryptAsymmetric(plaintext, publicKey, privateKey): readable with the
\* recipient's private key and the sender's public key
encryptAsymmetric(plaintext, publicKey, privateKey) ==
  [plain |-> plaintext, to |-> publicKey, from |-> PublicOf(privateKey)]
decryptAsymmetric(ciphertext, publicKey, privateKey) ==
  IF ciphertext.to = PublicOf(privateKey) /\ ciphertext.from = publicKey
  THEN ciphertext.plain
  ELSE "garbage"
\* infisicalSymmetricEncypt(data): sealed under the server's root key
infisicalSymmetricEncypt(data) == <<"sealed", data>>

\* createProjectKey({publicKey, privateKey}): a fresh random key, wrapped for
\* the holder of the key pair
createProjectKey(randomKey, publicKey, privateKey) ==
  encryptAsymmetric(randomKey, publicKey, privateKey)

\* assignWorkspaceKeysToMembers({decryptKey, userPrivateKey, members}) for one
\* member: unwrap decryptKey with the sender's public key and userPrivateKey,
\* wrap the plaintext for the member
assignWorkspaceKeysToMembers(decryptKey, userPrivateKey, userPublicKey) ==
  LET plaintextProjectKey ==
        decryptAsymmetric(decryptKey.encryptedKey, decryptKey.senderPublicKey, userPrivateKey)
  IN [workspaceEncryptedKey |-> encryptAsymmetric(plaintextProjectKey, userPublicKey, userPrivateKey),
      projectRole |-> Admin]

(* ------------------------------ the store ------------------------------ *)
Tables ==
  {"projects", "users", "projectMemberships", "projectUserMembershipRoles",
   "secretBlindIndexes", "projectEnvs", "secretFolders", "projectKeys",
   "projectBots", "identityProjectMemberships", "identityProjectMembershipRoles"}

EmptyDb == [t \in Tables |-> {}]
\* the writes of a transaction: ins, delProjects and delUsers are made with
\* the transaction handle tx; direct holds the rows of a DAL call made without
\* it, which are committed at once
EmptyTx == [ins |-> EmptyDb, direct |-> EmptyDb, delProjects |-> {}, delUsers |-> {}]

\* dal.create(row, tx)
Insert(tx, table, rows) == [tx EXCEPT !.ins[table] = @ \cup rows]
\* dal.create(row)
InsertDirect(tx, table, rows) == [tx EXCEPT !.direct[table] = @ \cup rows]

\* the project a row of a table belongs to (foreign key, ON DELETE CASCADE)
ProjectOfRow(table, r) ==
  CASE table = "projects" -> r.id
    [] table = "projectUserMembershipRoles" -> r.projectMembershipId[2]
    [] table = "identityProjectMembershipRoles" -> r.projectMembershipId[2]
    [] table = "secretFolders" -> r.envId[1]
    [] OTHER -> r.projectId

\* the users a row of a table refers to (foreign key, ON DELETE CASCADE)
UsersOfRow(table, r) ==
  CASE table = "users" -> {r.id}
    [] table = "projectMemberships" -> {r.userId}
    [] table = "projectUserMembershipRoles" -> {r.projectMembershipId[1]}
    [] table = "projectKeys" -> {r.receiverId}
    [] OTHER -> {}

\* projectDAL.deleteById(id): the row and every row owned by the project
DeleteProjectRows(d, ids) ==
  [t \in Tables |->
     IF t = "users" THEN d[t] ELSE {r \in d[t] : ProjectOfRow(t, r) \notin ids}]

\* userDAL.deleteById(id): the row and every row that refers to the user
DeleteUserRows(d, ids) ==
  [t \in Tables |-> {r \in d[t] : UsersOfRow(t, r) \cap ids = {}}]

\* what a transaction sees and what its commit leaves: the committed rows,
\* its own inserts and its own deletes
Apply(d, tx) ==
  DeleteUserRows(
    DeleteProjectRows([t \in Tables |-> d[t] \cup tx.ins[t] \cup tx.direct[t]],
                      tx.delProjects),
    tx.delUsers)

VARIABLES
  db,            \* the committed rows, by table
  keyStore,      \* cached plan usage by organization (Absent: no entry)
  projectQueue,  \* upgrade requests handed to the queue
  calls,         \* the calls in flight, by slot
  usedIds,       \* the ids the store gave to rows it committed
  nWrites,       \* how many calls patched a project or enqueued an upgrade
  workspaceLimit \* the workspace limit of the organization's plan

vars == <<db, keyStore, projectQueue, calls, usedIds, nWrites, workspaceLimit>>

IdleCall ==
  [op |-> "idle", pc |-> "idle", actor |-> Null, actorOrgId |-> Null,
   workspaceName |-> Null, slug |-> Null,
   projectId |-> Null, projectOrgId |-> Null, ghostUserId |-> Null,
   workspacesUsed |-> Null, permission |-> NotAsked,
   tx |-> EmptyTx, step |-> 0, result |-> "none", ret |-> Null,
   environments |-> <<>>, seen |-> {}, deletedItems |-> <<>>]

\* a slot that takes no call
ClosedCall == [IdleCall EXCEPT !.op = "closed", !.pc = "closed"]

\* an empty store; one call at a time
Init ==
  /\ db = EmptyDb
  /\ keyStore = [o \in Orgs |-> Absent]
  /\ projectQueue = <<>>
  /\ calls = [c \in Calls |-> IF c = "c1" THEN IdleCall ELSE ClosedCall]
  /\ usedIds = {}
  /\ nWrites = 0
  /\ workspaceLimit \in WorkspaceLimits

\* the same store, with two calls in flight at once
InitConcurrent ==
  /\ db = EmptyDb
  /\ keyStore = [o \in Orgs |-> Absent]
  /\ projectQueue = <<>>
  /\ calls = [c \in Calls |-> IdleCall]
  /\ usedIds = {}
  /\ nWrites = 0
  /\ workspaceLimit \in WorkspaceLimits


(* --------------------------- shared helpers ---------------------------- *)
Set(c, rec) == calls' = [calls EXCEPT ![c] = rec]

\* the call ends: its result, what it returns
Finish(call, result, ret) ==
  [call EXCEPT !.pc = "done", !.result = result, !.ret = ret, !.tx = EmptyTx,
               !.workspaceName = Null, !.slug = Null, !.workspacesUsed = Null,
               !.environments = <<>>]

\* a finished call hands its answer to its caller before anything else runs
Running == \A c \in Calls : calls[c].pc # "done"

ProjectId(n) == "proj" \o ToString(n)
GhostUserId(n) == "ghost" \o ToString(n)
AllProjectIds == {ProjectId(n) : n \in 1..MaxCreates}
\* the organization of the actor's token, when it has one
ActorOrgIds == Orgs \cup {Undefined}

ProjectsOfOrg(d, orgId) == {p \in d.projects : p.orgId = orgId}

\* licenseService.getPlan(orgId): the cached plan, or one computed from the
\* organization's projects and then cached
getPlan(d, ks, limit, orgId) ==
  [workspaceLimit |-> limit,
   workspacesUsed |->
     IF ks[orgId] # Absent THEN ks[orgId] ELSE Cardinality(ProjectsOfOrg(d, orgId))]

\* keyStore.deleteItem(`infisical-cloud-plan-${orgId}`)
deleteItem(ks, orgId) == [o \in Orgs |-> IF o = orgId THEN Absent ELSE ks[o]]

\* lines 121-127 left out
PlanLimitReached_NoCheck(plan) == FALSE

\* line 121 with > for >=
PlanLimitReached_Above(plan) ==
  plan.workspaceLimit # NoLimit /\ plan.workspacesUsed > plan.workspaceLimit

\* project-service.ts line 121: the plan's workspace limit is reached
PlanLimitReached(plan) ==
  plan.workspaceLimit # NoLimit /\ plan.workspacesUsed >= plan.workspaceLimit

\* @sindresorhus/slugify on `${workspaceName}-${alphaNumericNanoId(4)}`
Names == {"Acme"}
Lowercase == [Acme |-> "acme"]
NanoIds == {"k3x9", "p7q2"}
slugify(workspaceName, nanoId) == Lowercase[workspaceName] \o "-" \o nanoId
\* the slug a caller passes ("" when none is passed)
SlugInputs == {"", "acme-k3x9"}

(* ---------------------------- createProject ---------------------------- *)
CreatesInFlight == {c \in Calls : calls[c].op = "createProject" /\ calls[c].pc = "getPlan"}

\* the store gives every row a fresh id: one that no committed row has had
\* and no open transaction holds
IdOf(projectId) == CHOOSE n \in 1..MaxCreates : ProjectId(n) = projectId
HeldIds ==
  {n \in 1..MaxCreates :
     \E c \in Calls : /\ calls[c].op = "createProject"
                      /\ calls[c].pc \in {"transaction", "commit"}
                      /\ calls[c].projectId = ProjectId(n)}
FreeIds == (1..MaxCreates) \ (usedIds \cup HeldIds)
FreshId == CHOOSE n \in FreeIds : \A m \in FreeIds : n <= m

\* lines 98-118: find the organization, check the create-workspace permission
createProject_Authorize(c, actor, actorOrgId, workspaceName, slug) ==
  /\ Running
  /\ calls[c].op = "idle"
  /\ Cardinality(FreeIds) > Cardinality(CreatesInFlight)
  /\ LET call == [IdleCall EXCEPT !.op = "createProject", !.actor = actor,
                                  !.actorOrgId = actorOrgId,
                                  !.workspaceName = workspaceName, !.slug = slug]
     IN IF actorOrgId \notin Orgs
        THEN Set(c, Finish(call, "TypeError", Null))
        ELSE IF throwUnlessCan(getOrgPermission(actor, actorOrgId), CreateWorkspace) # "none"
        THEN Set(c, Finish(call, "ForbiddenError", Null))
        ELSE Set(c, [call EXCEPT !.pc = "getPlan"])
  /\ UNCHANGED <<db, keyStore, projectQueue, usedIds, nWrites, workspaceLimit>>

\* lines 120-129: read the plan, refuse at the limit, else open the transaction
createProject_GetPlan(c) ==
  /\ Running
  /\ calls[c].op = "createProject" /\ calls[c].pc = "getPlan"
  /\ LET orgId == calls[c].actorOrgId
         plan == getPlan(db, keyStore, workspaceLimit, orgId)
     IN /\ keyStore' = [keyStore EXCEPT ![orgId] = plan.workspacesUsed]
        /\ IF PlanLimitReached(plan)
           THEN Set(c, Finish(calls[c], "BadRequestError: plan limit reached", Null))
           ELSE Set(c, [calls[c] EXCEPT !.pc = "transaction",
                                        !.workspacesUsed = plan.workspacesUsed,
                                        !.projectId = ProjectId(FreshId),
                                        !.projectOrgId = orgId,
                                        !.ghostUserId = GhostUserId(FreshId)])
  /\ UNCHANGED <<db, projectQueue, usedIds, nWrites, workspaceLimit>>

(* the callback of projectDAL.transaction, lines 129-325: each step adds its
   rows to the transaction's writes *)

\* line 130: orgService.addGhostUser(organization.id, tx)
GhostUserRow(call) ==
  [id |-> call.ghostUserId, isGhost |-> TRUE, orgId |-> call.actorOrgId]
\* line 130 without tx: the ghost user is written outside the transaction
AddGhostUser_NoTx(call, nanoId, tx) == InsertDirect(tx, "users", {GhostUserRow(call)})
AddGhostUser(call, nanoId, tx) == Insert(tx, "users", {GhostUserRow(call)})

\* lines 132-141: projectDAL.create
ProjectRow(call, nanoId) ==
  [id |-> call.projectId, name |-> call.workspaceName, orgId |-> call.actorOrgId,
   slug |-> IF call.slug # "" THEN call.slug ELSE slugify(call.workspaceName, nanoId),
   version |-> V2, pitVersionLimit |-> 10,
   autoCapitalization |-> TRUE, upgradeStatus |-> Null]
\* what the storage answers to an insert that breaks a unique key
UniqueViolation == "DatabaseError: duplicate key"

\* the projects table without its unique key
SlugTaken_Unchecked(d, row) == FALSE

\* the projects table: the slug is unique within the organization; an insert
\* of a second row with the slug of a committed row is refused
SlugTaken(d, row) ==
  \E p \in d.projects : p.orgId = row.orgId /\ p.slug = row.slug /\ p.id # row.id

\* lines 132-141 without tx: the project row is written outside the transaction
CreateProjectRow_NoTx(call, nanoId, tx) ==
  InsertDirect(tx, "projects", {ProjectRow(call, nanoId)})
CreateProjectRow(call, nanoId, tx) == Insert(tx, "projects", {ProjectRow(call, nanoId)})

\* lines 143-153: the ghost user is a member of the project, with role Admin
MembershipRows(tx, userId, projectId, role) ==
  Insert(Insert(tx, "projectMemberships", {[userId |-> userId, projectId |-> projectId]}),
         "projectUserMembershipRoles",
         {[projectMembershipId |-> <<userId, projectId>>, role |-> role]})
\* line 151 with ProjectMembershipRole.Member
GhostMembership_Member(call, nanoId, tx) ==
  MembershipRows(tx, call.ghostUserId, call.projectId, Member)
GhostMembership(call, nanoId, tx) ==
  MembershipRows(tx, call.ghostUserId, call.projectId, Admin)

\* lines 156-166 without tx: the blind index is written outside the transaction
BlindIndex_NoTx(call, nanoId, tx) ==
  InsertDirect(tx, "secretBlindIndexes", {[projectId |-> call.projectId]})
\* lines 156-166: secretBlindIndexDAL.create
BlindIndex(call, nanoId, tx) ==
  Insert(tx, "secretBlindIndexes", {[projectId |-> call.projectId]})

\* lines 168-175: the default environments and a root folder for each
EnvRows(projectId) ==
  {[id |-> <<projectId, DEFAULT_PROJECT_ENVS[i].slug>>, projectId |-> projectId,
    name |-> DEFAULT_PROJECT_ENVS[i].name, slug |-> DEFAULT_PROJECT_ENVS[i].slug,
    position |-> i] : i \in 1..Len(DEFAULT_PROJECT_ENVS)}
FolderRows(envs) ==
  {[name |-> ROOT_FOLDER_NAME, envId |-> e.id, version |-> 1] : e \in envs}
\* line 168: what projectEnvDAL.insertMany returns, the rows in the order given
InsertedEnvs(projectId) ==
  [i \in 1..Len(DEFAULT_PROJECT_ENVS) |->
     CHOOSE e \in EnvRows(projectId) : e.position = i]
\* lines 168-171 alone: the environments without their root folders
EnvsAndFolders_NoFolders(call, nanoId, tx) ==
  Insert(tx, "projectEnvs", EnvRows(call.projectId))
EnvsAndFolders(call, nanoId, tx) ==
  LET envs == EnvRows(call.projectId)
  IN Insert(Insert(tx, "projectEnvs", envs), "secretFolders", FolderRows(envs))

\* lines 178-193: a random project key, wrapped for the ghost user
RandomKey(projectId) == "key-" \o projectId
GhostKeyRow(call) ==
  [projectId |-> call.projectId, receiverId |-> call.ghostUserId,
   senderId |-> call.ghostUserId,
   encryptedKey |-> createProjectKey(RandomKey(call.projectId),
                                     PublicKey(call.ghostUserId),
                                     PrivateKey(call.ghostUserId))]
GhostProjectKey(call, nanoId, tx) == Insert(tx, "projectKeys", {GhostKeyRow(call)})

\* lines 195-214: the bot keeps the ghost user's private key, sealed
BotRow(call) ==
  [projectId |-> call.projectId, name |-> "Infisical Bot (Ghost)", isActive |-> TRUE,
   encryptedProjectKey |-> GhostKeyRow(call).encryptedKey,
   encryptedPrivateKey |-> infisicalSymmetricEncypt(PrivateKey(call.ghostUserId)),
   publicKey |-> PublicKey(call.ghostUserId), senderId |-> call.ghostUserId]
Bot(call, nanoId, tx) == Insert(tx, "projectBots", {BotRow(call)})

\* projectKeyDAL.findLatestProjectKey(userId, projectId, tx): the user's key
\* rows of the project, each with its sender's public key
findLatestProjectKey(view, userId, projectId) ==
  {[encryptedKey |-> k.encryptedKey, senderPublicKey |-> PublicKey(k.senderId)] :
     k \in {r \in view.projectKeys : r.receiverId = userId /\ r.projectId = projectId}}

\* lines 224-268: a user creates the project: member with role Admin, and a
\* copy of the project key wrapped for the user by the ghost user
\* line 262 with senderId: actorId
UserKeyRow_SentByActor(call, latestKey) ==
  [projectId |-> call.projectId, receiverId |-> call.actor,
   senderId |-> call.actor,
   encryptedKey |->
     assignWorkspaceKeysToMembers(latestKey, PrivateKey(call.ghostUserId),
                                  PublicKey(call.actor)).workspaceEncryptedKey]
UserKeyRow(call, latestKey) ==
  [projectId |-> call.projectId, receiverId |-> call.actor,
   senderId |-> call.ghostUserId,
   encryptedKey |->
     assignWorkspaceKeysToMembers(latestKey, PrivateKey(call.ghostUserId),
                                  PublicKey(call.actor)).workspaceEncryptedKey]
\* lines 257-267 left out: the user becomes a member without a key
AddUser_NoKey(call, latestKey, tx) ==
  MembershipRows(tx, call.actor, call.projectId, Admin)
AddUser(call, latestKey, tx) ==
  LET projectAdmin == assignWorkspaceKeysToMembers(
        latestKey, PrivateKey(call.ghostUserId), PublicKey(call.actor))
  IN Insert(MembershipRows(tx, call.actor, call.projectId, projectAdmin.projectRole),
            "projectKeys", {UserKeyRow(call, latestKey)})

\* lines 271-318: an identity creates the project: it must be at least as
\* privileged as the organization role Member; it becomes a member with role
\* Admin, or Custom when getOrgPermissionByRole returned a custom role
\* line 295 with its arguments swapped
hasPrivilege_Swapped(call) ==
  isAtLeastAsPrivileged(getOrgPermissionByRole(Member, call.actorOrgId).permission,
                        getOrgPermission(call.actor, call.actorOrgId))
hasPrivilege(call) ==
  isAtLeastAsPrivileged(getOrgPermission(call.actor, call.actorOrgId),
                        getOrgPermissionByRole(Member, call.actorOrgId).permission)
IdentityMembershipRows(tx, identityId, projectId, customRole) ==
  Insert(Insert(tx, "identityProjectMemberships",
                {[identityId |-> identityId, projectId |-> projectId]}),
         "identityProjectMembershipRoles",
         {[projectMembershipId |-> <<identityId, projectId>>,
           role |-> IF customRole # Null THEN Custom ELSE Admin,
           customRoleId |-> customRole]})
\* lines 302-317 left out: the identity is not added to the project
AddIdentity_None(call, tx) == tx
AddIdentity(call, tx) ==
  IdentityMembershipRows(tx, call.actor, call.projectId,
                         getOrgPermissionByRole(Member, call.actorOrgId).role)

\* lines 217-318: what the last step throws before it writes ("none": nothing)
AddActorError(call, view) ==
  IF findLatestProjectKey(view, call.ghostUserId, call.projectId) = {}
  THEN "Error: Latest key not found for user"
  ELSE IF ActorType(call.actor) = USER
  THEN IF call.actor \notin UsersWithEncKeys THEN "Error: User not found" ELSE "none"
  ELSE IF call.actor \notin IdentityOrgMemberships
  THEN "BadRequestError: Failed to find identity"
  ELSE IF ~hasPrivilege(call)
  THEN "ForbiddenRequestError: more privileged role"
  ELSE "none"
AddActor(call, view, tx) ==
  IF ActorType(call.actor) = USER
  THEN AddUser(call, CHOOSE k \in findLatestProjectKey(view, call.ghostUserId, call.projectId) : TRUE, tx)
  ELSE AddIdentity(call, tx)

\* the steps of the callback, in the order of the code
Steps == <<"addGhostUser", "create", "ghostMembership", "blindIndex",
           "envsAndFolders", "projectKey", "bot", "addActor">>
CreateStep == 2
Step(name, call, nanoId, d, tx) ==
  CASE name = "addGhostUser" -> AddGhostUser(call, nanoId, tx)
    [] name = "create" -> CreateProjectRow(call, nanoId, tx)
    [] name = "ghostMembership" -> GhostMembership(call, nanoId, tx)
    [] name = "blindIndex" -> BlindIndex(call, nanoId, tx)
    [] name = "envsAndFolders" -> EnvsAndFolders(call, nanoId, tx)
    [] name = "projectKey" -> GhostProjectKey(call, nanoId, tx)
    [] name = "bot" -> Bot(call, nanoId, tx)
    [] name = "addActor" -> AddActor(call, Apply(d, tx), tx)

\* the writes of the transaction after its first n steps
RECURSIVE RunSteps(_, _, _, _)
RunSteps(call, nanoId, d, n) ==
  IF n = 0 THEN EmptyTx
  ELSE Step(Steps[n], call, nanoId, d, RunSteps(call, nanoId, d, n - 1))

\* projectDAL.transaction: a throw inside the callback discards the writes
\* made with tx
TransactionRollback(d, tx) == [t \in Tables |-> d[t] \cup tx.direct[t]]
\* projectDAL.transaction: the callback returned, its writes become visible
TransactionCommit(d, tx) == Apply(d, tx)

\* lines 129-325, the callback: the storage fails at step failAt (0: at no
\* step), or it refuses the project row for its slug, or the last step
\* throws, and the writes are rolled back; else the callback returns
createProject_Transaction(c, nanoId, failAt) ==
  /\ Running
  /\ calls[c].op = "createProject" /\ calls[c].pc = "transaction"
  /\ LET call == calls[c]
         last == Len(Steps)
         before == RunSteps(call, nanoId, db, last - 1)
         refused == failAt \notin 1..(CreateStep - 1) /\ SlugTaken(db, ProjectRow(call, nanoId))
         thrown == IF refused THEN UniqueViolation
                   ELSE IF failAt \in 1..(last - 1) THEN "DatabaseError"
                   ELSE IF AddActorError(call, Apply(db, before)) # "none"
                   THEN AddActorError(call, Apply(db, before))
                   ELSE IF failAt = last THEN "DatabaseError" ELSE "none"
         at == IF refused THEN CreateStep ELSE IF failAt = 0 THEN last ELSE failAt
         done == IF thrown \in {"DatabaseError", UniqueViolation} THEN at - 1 ELSE last
     IN IF thrown # "none"
        THEN /\ db' = TransactionRollback(db, RunSteps(call, nanoId, db, done))
             /\ Set(c, Finish([call EXCEPT !.step = at], thrown, Null))
        ELSE /\ db' = db
             /\ Set(c, [call EXCEPT !.pc = "commit", !.step = last,
                                    !.environments = InsertedEnvs(call.projectId),
                                    !.tx = RunSteps(call, nanoId, db, last)])
  /\ UNCHANGED <<keyStore, projectQueue, usedIds, nWrites, workspaceLimit>>

\* line 325: the callback returned, the transaction commits; it fails when
\* the storage fails or another transaction committed the slug meanwhile
createProject_Commit(c, fail) ==
  /\ Running
  /\ calls[c].op = "createProject" /\ calls[c].pc = "commit"
  /\ IF fail \/ \E row \in calls[c].tx.ins.projects \cup calls[c].tx.direct.projects :
                  SlugTaken(db, row)
     THEN /\ db' = TransactionRollback(db, calls[c].tx)
          /\ Set(c, Finish(calls[c], IF fail THEN "DatabaseError" ELSE UniqueViolation, Null))
          /\ UNCHANGED usedIds
     ELSE /\ db' = TransactionCommit(db, calls[c].tx)
          /\ Set(c, [calls[c] EXCEPT !.pc = "deleteItem", !.tx = EmptyTx])
          /\ usedIds' = usedIds \cup {IdOf(calls[c].projectId)}
  /\ UNCHANGED <<keyStore, projectQueue, nWrites, workspaceLimit>>

\* lines 327-328: drop the organization's cached plan, return what the
\* callback returned (lines 320-324): the project with its environments
createProject_DeleteItem(c, fail) ==
  /\ Running
  /\ calls[c].op = "createProject" /\ calls[c].pc = "deleteItem"
  /\ IF fail
     THEN /\ Set(c, Finish(calls[c], "KeyStoreError", Null))
          /\ UNCHANGED keyStore
     ELSE /\ keyStore' = deleteItem(keyStore, calls[c].actorOrgId)
          /\ Set(c, [Finish([calls[c] EXCEPT !.deletedItems = Append(@, calls[c].actorOrgId)],
                            "ok", calls[c].projectId)
                       EXCEPT !.environments = calls[c].environments])
  /\ UNCHANGED <<db, projectQueue, usedIds, nWrites, workspaceLimit>>

(* ---------------------------- deleteProject ---------------------------- *)
\* a project selector: by id, or by slug within an organization
Filters(d, orgIds) ==
  {[type |-> "id", projectId |-> ProjectId(n), slug |-> Null, orgId |-> Null] :
     n \in 1..MaxCreates} \cup
  {[type |-> "slug", projectId |-> Null, slug |-> p.slug, orgId |-> o] :
     p \in d.projects, o \in orgIds}

\* projectDAL.findProjectBySlug(slug, orgId)
findProjectBySlug(d, slug, orgId) ==
  {p \in d.projects : p.slug = slug /\ p.orgId = orgId}

\* projectDAL.findProjectByFilter(filter): the rows the selector matches
findProjectByFilter(d, filter) ==
  IF filter.type = "id"
  THEN {p \in d.projects : p.id = filter.projectId}
  ELSE findProjectBySlug(d, filter.slug, filter.orgId)

\* lines 331-341: find the project, check the delete permission
deleteProject_Authorize(c, actorOrgId, filter, permission) ==
  /\ Running
  /\ calls[c].op = "idle"
  /\ LET call == [IdleCall EXCEPT !.op = "deleteProject", !.actorOrgId = actorOrgId]
         found == findProjectByFilter(db, filter)
         asked == [call EXCEPT !.permission = permission]
     IN IF found = {}
        THEN Set(c, Finish(call, "BadRequestError: Project not found", Null))
        ELSE \E project \in found :
               IF permission.throws
               THEN Set(c, Finish(asked, "UnauthorizedError", Null))
               ELSE IF throwUnlessCan(permission.can, DeleteProjectCap) # "none"
               THEN Set(c, Finish(asked, "ForbiddenError", Null))
               ELSE Set(c, [asked EXCEPT !.pc = "transaction",
                                         !.projectId = project.id,
                                         !.projectOrgId = project.orgId])
  /\ UNCHANGED <<db, keyStore, projectQueue, usedIds, nWrites, workspaceLimit>>

\* projectMembershipDAL.findProjectGhostUser(projectId, tx): the ghost users
\* that are members of the project
findProjectGhostUser(view, projectId) ==
  {u \in view.users :
     /\ u.isGhost
     /\ \E m \in view.projectMemberships : m.userId = u.id /\ m.projectId = projectId}

\* line 345 without its .catch: the lookup's error leaves the callback
GhostUserLookup_Rethrow(view, projectId, lookupThrows) ==
  [threw |-> lookupThrows,
   found |-> IF lookupThrows THEN {} ELSE findProjectGhostUser(view, projectId)]

\* line 345: .catch(() => null): a lookup that throws finds nothing
GhostUserLookup(view, projectId, lookupThrows) ==
  [threw |-> FALSE,
   found |-> IF lookupThrows THEN {} ELSE findProjectGhostUser(view, projectId)]

\* lines 344-350: the writes of the callback: delete the project, then look
\* the ghost user up and delete it when found
DeleteWrites(d, projectId, lookupThrows) ==
  LET tx1 == [EmptyTx EXCEPT !.delProjects = {projectId}]
      projectGhostUser == GhostUserLookup(Apply(d, tx1), projectId, lookupThrows).found
  IN [tx1 EXCEPT !.delUsers = {u.id : u \in projectGhostUser}]

\* lines 343-353, the callback: failAt 1 is projectDAL.deleteById throwing,
\* failAt 2 userDAL.deleteById throwing, 0 neither.  The call keeps which
\* ghost user the project had when the callback began (ghostUserId)
deleteProject_Transaction(c, failAt, lookupThrows) ==
  /\ Running
  /\ calls[c].op = "deleteProject" /\ calls[c].pc = "transaction"
  /\ LET bound == findProjectGhostUser(db, calls[c].projectId)
         call == [calls[c] EXCEPT !.permission = NotAsked,
                                  !.ghostUserId =
                                    IF bound = {} THEN Null
                                    ELSE (CHOOSE u \in bound : TRUE).id]
         tx1 == [EmptyTx EXCEPT !.delProjects = {call.projectId}]
         tx == DeleteWrites(db, call.projectId, lookupThrows)
         delProject == {p \in db.projects : p.id = call.projectId}
     IN IF failAt = 1 \/ (failAt = 2 /\ tx.delUsers # {})
        THEN /\ db' = TransactionRollback(db, tx)
             /\ Set(c, Finish([call EXCEPT !.step = failAt], "DatabaseError", Null))
        ELSE IF GhostUserLookup(Apply(db, tx1), call.projectId, lookupThrows).threw
        THEN /\ db' = TransactionRollback(db, tx)
             /\ Set(c, Finish([call EXCEPT !.step = 2],
                              "DatabaseError: findProjectGhostUser", Null))
        ELSE /\ db' = db
             /\ Set(c, [call EXCEPT !.pc = "commit", !.tx = tx, !.step = 2,
                                    !.ret = IF delProject = {} THEN Null ELSE call.projectId])
  /\ UNCHANGED <<keyStore, projectQueue, usedIds, nWrites, workspaceLimit>>

\* line 353: the callback returned, the transaction commits
deleteProject_Commit(c, fail) ==
  /\ Running
  /\ calls[c].op = "deleteProject" /\ calls[c].pc = "commit"
  /\ IF fail
     THEN /\ db' = TransactionRollback(db, calls[c].tx)
          /\ Set(c, Finish(calls[c], "DatabaseError", Null))
     ELSE /\ db' = TransactionCommit(db, calls[c].tx)
          /\ Set(c, [calls[c] EXCEPT !.pc = "deleteItem", !.tx = EmptyTx])
  /\ UNCHANGED <<keyStore, projectQueue, usedIds, nWrites, workspaceLimit>>

\* lines 355-356: drop the cached plan of the actor's organization, return
\* the deleted project
deleteProject_DeleteItem(c, fail) ==
  /\ Running
  /\ calls[c].op = "deleteProject" /\ calls[c].pc = "deleteItem"
  /\ IF fail
     THEN /\ Set(c, Finish(calls[c], "KeyStoreError", Null))
          /\ UNCHANGED keyStore
     ELSE /\ keyStore' = deleteItem(keyStore, calls[c].actorOrgId)
          /\ Set(c, Finish([calls[c] EXCEPT !.deletedItems = Append(@, calls[c].actorOrgId)],
                           "ok", calls[c].ret))
  /\ UNCHANGED <<db, projectQueue, usedIds, nWrites, workspaceLimit>>

(* ------------------------------ updates -------------------------------- *)
\* what permissionService.getProjectPermission can answer for a project id
getProjectPermission(d, projectId) ==
  IF \E p \in d.projects : p.id = projectId
  THEN ProjectPermissions
  ELSE {q \in ProjectPermissions : q.throws}

\* projectDAL.updateById(id, patch): the fields the patch defines are set
updateById(d, projectId, fields, patch) ==
  [d EXCEPT !.projects =
     {IF p.id # projectId THEN p
      ELSE [p EXCEPT
              !.name = IF "name" \in fields THEN patch.name ELSE @,
              !.autoCapitalization =
                 IF "autoCapitalization" \in fields THEN patch.autoCapitalization ELSE @,
              !.pitVersionLimit =
                 IF "pitVersionLimit" \in fields THEN patch.pitVersionLimit ELSE @]
      : p \in d.projects}]

NewNames == {"Beta"}
NewLimits == {5}
Patches ==
  [name : NewNames, autoCapitalization : {FALSE}, pitVersionLimit : NewLimits]

\* a call that authorizes and then patches one project: denied, or patched
Update(c, op, projectId, permission, denied, fields, patch) ==
  /\ Running
  /\ calls[c].op = "idle"
  /\ LET call == [IdleCall EXCEPT !.op = op, !.projectId = projectId,
                                  !.permission = permission]
         rejected == [IdleCall EXCEPT !.op = op, !.permission = permission]
     IN IF permission.throws
        THEN /\ Set(c, Finish(rejected, "UnauthorizedError", Null))
             /\ UNCHANGED <<db, nWrites>>
        ELSE IF denied # "none"
        THEN /\ Set(c, Finish(rejected, denied, Null))
             /\ UNCHANGED <<db, nWrites>>
        ELSE /\ nWrites < MaxWrites
             /\ db' = updateById(db, projectId, fields, patch)
             /\ nWrites' = nWrites + 1
             /\ Set(c, Finish(call, "ok", projectId))
  /\ UNCHANGED <<keyStore, projectQueue, usedIds, workspaceLimit>>

\* a call whose project selector matches nothing
NotFound(c, op) ==
  /\ Running
  /\ calls[c].op = "idle"
  /\ Set(c, Finish([IdleCall EXCEPT !.op = op], "BadRequestError: Project not found", Null))
  /\ UNCHANGED <<db, keyStore, projectQueue, usedIds, nWrites, workspaceLimit>>

\* lines 371-388
updateProject(c, filter, fields, patch, permission) ==
  LET found == findProjectByFilter(db, filter)
  IN IF found = {}
     THEN NotFound(c, "updateProject")
     ELSE \E project \in found :
            Update(c, "updateProject", project.id, permission,
                   throwUnlessCan(permission.can, EditSettings),
                   fields \cap {"name", "autoCapitalization"}, patch)

\* lines 390-409
toggleAutoCapitalization(c, projectId, patch, permission) ==
  Update(c, "toggleAutoCapitalization", projectId, permission,
         throwUnlessCan(permission.can, EditSettings), {"autoCapitalization"}, patch)

\* lines 434-435 left out: the limit is patched for any actor with access
updateVersionLimit_NoRoleGate(c, workspaceSlug, actorOrgId, patch, permission) ==
  LET found == findProjectBySlug(db, workspaceSlug, actorOrgId)
  IN IF found = {}
     THEN NotFound(c, "updateVersionLimit")
     ELSE \E project \in found :
            Update(c, "updateVersionLimit", project.id, permission, "none",
                   {"pitVersionLimit"}, patch)

\* lines 411-438
updateVersionLimit(c, workspaceSlug, actorOrgId, patch, permission) ==
  LET found == findProjectBySlug(db, workspaceSlug, actorOrgId)
  IN IF found = {}
     THEN NotFound(c, "updateVersionLimit")
     ELSE \E project \in found :
            Update(c, "updateVersionLimit", project.id, permission,
                   IF hasRole(permission, Admin) THEN "none"
                   ELSE "BadRequestError: Only admins are allowed to take this action",
                   {"pitVersionLimit"}, patch)

\* lines 440-459
updateName(c, projectId, patch, permission) ==
  Update(c, "updateName", projectId, permission,
         throwUnlessCan(permission.can, EditSettings), {"name"}, patch)

(* ---------------------------- upgradeProject --------------------------- *)
UpgradeActors == {"u1"}

\* lines 461-497
upgradeProject(c, actor, projectId, permission) ==
  /\ Running
  /\ calls[c].op = "idle"
  /\ LET call == [IdleCall EXCEPT !.op = "upgradeProject", !.permission = permission]
     IN IF permission.throws
        THEN Set(c, Finish(call, "UnauthorizedError", Null)) /\ UNCHANGED <<projectQueue, nWrites>>
        ELSE IF throwUnlessCan(permission.can, DeleteProjectCap) # "none"
        THEN Set(c, Finish(call, "ForbiddenError", Null)) /\ UNCHANGED <<projectQueue, nWrites>>
        ELSE IF ~hasRole(permission, Admin)
        THEN /\ Set(c, Finish(call, "ForbiddenRequestError: User must be admin", Null))
             /\ UNCHANGED <<projectQueue, nWrites>>
        ELSE /\ nWrites < MaxWrites
             /\ projectQueue' = Append(projectQueue,
                  [projectId |-> projectId, startedByUserId |-> actor,
                   encryptedPrivateKey |-> infisicalSymmetricEncypt(PrivateKey(actor))])
             /\ nWrites' = nWrites + 1
             /\ Set(c, Finish(call, "ok", Null))
  /\ UNCHANGED <<db, keyStore, usedIds, workspaceLimit>>

(* ------------------------------- reads --------------------------------- *)
\* projectDAL.findAllProjects(actorId): the projects the user is a member of
findAllProjects(d, actorId) ==
  {p \in d.projects :
     \E m \in d.projectMemberships : m.projectId = p.id /\ m.userId = actorId}

\* lines 359-362: the call returns the rows (seen)
getProjects(c, actorId) ==
  /\ Running
  /\ calls[c].op = "idle"
  /\ Set(c, Finish([IdleCall EXCEPT !.op = "getProjects", !.actor = actorId,
                                    !.seen = findAllProjects(db, actorId)],
                   "ok", Null))
  /\ UNCHANGED <<db, keyStore, projectQueue, usedIds, nWrites, workspaceLimit>>

\* line 367 with the rejection of getProjectPermission swallowed
AccessDenied_Ignored(permission) == FALSE

\* line 367: await permissionService.getProjectPermission(...) rejects when
\* the actor has no access to the project
AccessDenied(permission) == permission.throws

\* lines 364-369: find the project, ask for the actor's permission, return
\* the project
getAProject(c, filter, permission) ==
  /\ Running
  /\ calls[c].op = "idle"
  /\ LET call == [IdleCall EXCEPT !.op = "getAProject"]
         found == findProjectByFilter(db, filter)
     IN IF found = {}
        THEN Set(c, Finish(call, "BadRequestError: Project not found", Null))
        ELSE \E project \in found :
               LET asked == [call EXCEPT !.permission = permission]
               IN IF AccessDenied(permission)
                  THEN Set(c, Finish(asked, "UnauthorizedError", Null))
                  ELSE Set(c, Finish([asked EXCEPT !.seen = {project}], "ok", project.id))
  /\ UNCHANGED <<db, keyStore, projectQueue, usedIds, nWrites, workspaceLimit>>

\* line 523 returning null whatever the column holds
upgradeStatusOrNull_Unset(project) == Null

\* line 523: project.upgradeStatus || null
upgradeStatusOrNull(project) ==
  IF project.upgradeStatus \in {Null, ""} THEN Null ELSE project.upgradeStatus

\* projectDAL.findProjectById(projectId)
findProjectById(d, projectId) == {p \in d.projects : p.id = projectId}

\* lines 499-524: ask for the actor's permission, check read:secrets, find the
\* project, return its upgrade status
getProjectUpgradeStatus(c, projectId, permission) ==
  /\ Running
  /\ calls[c].op = "idle"
  /\ LET call == [IdleCall EXCEPT !.op = "getProjectUpgradeStatus",
                                  !.permission = permission]
         found == findProjectById(db, projectId)
     IN IF permission.throws
        THEN Set(c, Finish(call, "UnauthorizedError", Null))
        ELSE IF throwUnlessCan(permission.can, ReadSecrets) # "none"
        THEN Set(c, Finish(call, "ForbiddenError", Null))
        ELSE IF found = {}
        THEN Set(c, Finish(call, "BadRequestError: Project not found", Null))
        ELSE \E project \in found :
               Set(c, Finish([call EXCEPT !.projectId = projectId],
                             "ok", upgradeStatusOrNull(project)))
  /\ UNCHANGED <<db, keyStore, projectQueue, usedIds, nWrites, workspaceLimit>>

\* the caller has its answer; the slot is free again
Return(c) ==
  /\ calls[c].pc = "done"
  /\ Set(c, IdleCall)
  /\ UNCHANGED <<db, keyStore, projectQueue, usedIds, nWrites, workspaceLimit>>


(* a caller starts a call in a free slot, with any input *)
Idle(c) == Running /\ calls[c].op = "idle"

Call_createProject(c) ==
  /\ Idle(c)
  /\ \E a \in Actors, o \in ActorOrgIds, n \in Names, s \in SlugInputs :
       createProject_Authorize(c, a, o, n, s)

Call_deleteProject(c) ==
  /\ Idle(c)
  /\ \E o \in ActorOrgIds : \E f \in Filters(db, {o}), q \in PermissionOnly :
       deleteProject_Authorize(c, o, f, q)

Call_updateProject(c) ==
  /\ Idle(c)
  /\ \E f \in Filters(db, ActorOrgIds), q \in PermissionOnly,
        fields \in SUBSET {"name", "autoCapitalization"} \ {{}}, patch \in Patches :
       updateProject(c, f, fields, patch, q)

Call_toggleAutoCapitalization(c) ==
  /\ Idle(c)
  /\ \E id \in AllProjectIds, patch \in Patches :
     \E q \in getProjectPermission(db, id) \cap PermissionOnly :
       toggleAutoCapitalization(c, id, patch, q)

Call_updateVersionLimit(c) ==
  /\ Idle(c)
  /\ \E o \in ActorOrgIds, patch \in Patches, q \in ProjectPermissions :
     \E slug \in {p.slug : p \in db.projects} \cup {"none"} :
       updateVersionLimit(c, slug, o, patch, q)

Call_updateName(c) ==
  /\ Idle(c)
  /\ \E id \in AllProjectIds, patch \in Patches :
     \E q \in getProjectPermission(db, id) \cap PermissionOnly :
       updateName(c, id, patch, q)

Call_upgradeProject(c) ==
  /\ Idle(c)
  /\ \E a \in UpgradeActors, id \in AllProjectIds : \E q \in getProjectPermission(db, id) :
       upgradeProject(c, a, id, q)

\* the users that list their projects
Readers == {"u1", "u2"}

Call_getProjects(c) ==
  /\ Idle(c)
  /\ \E a \in Readers : getProjects(c, a)

Call_getAProject(c) ==
  /\ Idle(c)
  /\ \E f \in Filters(db, ActorOrgIds), q \in PermissionOnly : getAProject(c, f, q)

Call_getProjectUpgradeStatus(c) ==
  /\ Idle(c)
  /\ \E id \in AllProjectIds :
     \E q \in getProjectPermission(db, id) \cap PermissionOnly :
       getProjectUpgradeStatus(c, id, q)

\* every operation of the service
Next ==
  \E c \in Calls :
    \/ Call_createProject(c)
    \/ createProject_GetPlan(c)
    \/ \E nanoId \in NanoIds, failAt \in 0..Len(Steps) :
         createProject_Transaction(c, nanoId, failAt)
    \/ \E fail \in BOOLEAN : createProject_Commit(c, fail)
    \/ \E fail \in BOOLEAN : createProject_DeleteItem(c, fail)
    \/ Call_deleteProject(c)
    \/ \E failAt \in 0..2, lookupThrows \in BOOLEAN :
         deleteProject_Transaction(c, failAt, lookupThrows)
    \/ \E fail \in BOOLEAN : deleteProject_Commit(c, fail)
    \/ \E fail \in BOOLEAN : deleteProject_DeleteItem(c, fail)
    \/ Call_updateProject(c)
    \/ Call_toggleAutoCapitalization(c)
    \/ Call_updateVersionLimit(c)
    \/ Call_updateName(c)
    \/ Call_upgradeProject(c)
    \/ Call_getProjects(c)
    \/ Call_getAProject(c)
    \/ Call_getProjectUpgradeStatus(c)
    \/ Return(c)

\* one call at a time
Spec == Init /\ [][Next]_vars

\* createProject and deleteProject
NextLifecycle ==
  \E c \in Calls :
    \/ Call_createProject(c)
    \/ createProject_GetPlan(c)
    \/ \E nanoId \in NanoIds, failAt \in 0..Len(Steps) :
         createProject_Transaction(c, nanoId, failAt)
    \/ \E fail \in BOOLEAN : createProject_Commit(c, fail)
    \/ \E fail \in BOOLEAN : createProject_DeleteItem(c, fail)
    \/ Call_deleteProject(c)
    \/ \E failAt \in 0..2, lookupThrows \in BOOLEAN :
         deleteProject_Transaction(c, failAt, lookupThrows)
    \/ \E fail \in BOOLEAN : deleteProject_Commit(c, fail)
    \/ \E fail \in BOOLEAN : deleteProject_DeleteItem(c, fail)
    \/ Return(c)

\* projects are created and deleted, one call at a time
SpecLifecycle == Init /\ [][NextLifecycle]_vars

\* two calls interleaved
SpecConcurrent == InitConcurrent /\ [][NextLifecycle]_vars

\* createProject, deleteProject and the reads
NextReaders ==
  \E c \in Calls :
    \/ Call_createProject(c)
    \/ createProject_GetPlan(c)
    \/ \E nanoId \in NanoIds, failAt \in 0..Len(Steps) :
         createProject_Transaction(c, nanoId, failAt)
    \/ \E fail \in BOOLEAN : createProject_Commit(c, fail)
    \/ \E fail \in BOOLEAN : createProject_DeleteItem(c, fail)
    \/ Call_deleteProject(c)
    \/ \E failAt \in 0..2, lookupThrows \in BOOLEAN :
         deleteProject_Transaction(c, failAt, lookupThrows)
    \/ \E fail \in BOOLEAN : deleteProject_Commit(c, fail)
    \/ \E fail \in BOOLEAN : deleteProject_DeleteItem(c, fail)
    \/ Call_getProjects(c)
    \/ Call_getAProject(c)
    \/ Call_getProjectUpgradeStatus(c)
    \/ Return(c)

\* a reader interleaved with a createProject or a deleteProject
SpecReaders == InitConcurrent /\ [][NextReaders]_vars

\* outside this service: the worker of the upgrade queue moves the upgrade
\* status of a project: NONE (null) -> IN_PROGRESS -> COMPLETED | FAILED
IN_PROGRESS == "IN_PROGRESS"
COMPLETED == "COMPLETED"
FAILED == "FAILED"
NextUpgradeStatus(status) ==
  IF status = Null THEN {IN_PROGRESS}
  ELSE IF status = IN_PROGRESS THEN {COMPLETED, FAILED}
  ELSE {}

\* the worker starts on a request of the queue and later ends the upgrade
UpgradeWorker(projectId, status) ==
  /\ Running
  /\ \E i \in 1..Len(projectQueue) : projectQueue[i].projectId = projectId
  /\ \E p \in db.projects : p.id = projectId /\ status \in NextUpgradeStatus(p.upgradeStatus)
  /\ db' = [db EXCEPT !.projects =
              {IF p.id = projectId THEN [p EXCEPT !.upgradeStatus = status] ELSE p :
                 p \in db.projects}]
  /\ UNCHANGED <<keyStore, projectQueue, calls, usedIds, nWrites, workspaceLimit>>

\* every operation of the service, and the worker of the upgrade queue
NextUpgrade ==
  \/ Next
  \/ \E id \in AllProjectIds, status \in {IN_PROGRESS, COMPLETED, FAILED} :
       UpgradeWorker(id, status)

SpecUpgrade == Init /\ [][NextUpgrade]_vars

\* outside this service: a ghost user is removed from the store
GhostUserIds == {GhostUserId(n) : n \in 1..MaxCreates}
RemoveGhostUser(userId) ==
  /\ Running
  /\ \E u \in db.users : u.id = userId /\ u.isGhost
  /\ db' = DeleteUserRows(db, {userId})
  /\ UNCHANGED <<keyStore, projectQueue, calls, usedIds, nWrites, workspaceLimit>>

\* createProject and deleteProject one call at a time, and removals from outside
NextOutOfBand ==
  \/ \E c \in Calls :
       \/ Call_createProject(c)
       \/ createProject_GetPlan(c)
       \/ \E nanoId \in NanoIds, failAt \in 0..Len(Steps) :
            createProject_Transaction(c, nanoId, failAt)
       \/ \E fail \in BOOLEAN : createProject_Commit(c, fail)
       \/ \E fail \in BOOLEAN : createProject_DeleteItem(c, fail)
       \/ Call_deleteProject(c)
       \/ \E failAt \in 0..2, lookupThrows \in BOOLEAN :
            deleteProject_Transaction(c, failAt, lookupThrows)
       \/ \E fail \in BOOLEAN : deleteProject_Commit(c, fail)
       \/ \E fail \in BOOLEAN : deleteProject_DeleteItem(c, fail)
       \/ Return(c)
  \/ \E u \in GhostUserIds : RemoveGhostUser(u)

SpecOutOfBand == Init /\ [][NextOutOfBand]_vars

(* ------------------------------ properties ----------------------------- *)
Done(c, op) == calls[c].op = op /\ calls[c].pc = "done"

\* no row of the store belongs to the project or is the user
NoRowsOf(d, projectId, userId) ==
  /\ \A t \in Tables \ {"users"} : \A r \in d[t] : ProjectOfRow(t, r) # projectId
  /\ \A u \in d.users : u.id # userId

PlanLimitError == "BadRequestError: plan limit reached"
EscalationError == "ForbiddenRequestError: more privileged role"

\* C1: when a step of createProject's transaction fails after the project
\* row was inserted (steps 3 to 8, or the commit), the store afterwards holds
\* no row of that attempt: no project, membership, role, blind index,
\* environment, folder, key, bot row of its project and not its ghost user.
C1_FullRollback ==
  \A c \in Calls :
    ( /\ Done(c, "createProject")
      /\ calls[c].step > CreateStep
      /\ calls[c].result \notin {"ok", "KeyStoreError"} )
    => NoRowsOf(db, calls[c].projectId, calls[c].ghostUserId)

\* a provisioning attempt failed after its project row was inserted, while
\* the store holds the rows of another project
C1_Witness ==
  \E c \in Calls :
    /\ Done(c, "createProject")
    /\ calls[c].step > CreateStep
    /\ calls[c].result = "DatabaseError"
    /\ db.projects # {}

\* the answers of a permission check that refuses the actor
Denials ==
  {"UnauthorizedError", "ForbiddenError",
   "BadRequestError: Only admins are allowed to take this action",
   "ForbiddenRequestError: User must be admin"}

\* the permission the operation asked for does not allow the call
Denied(call) ==
  CASE call.op = "createProject" ->
         /\ call.actorOrgId \in Orgs
         /\ CreateWorkspace \notin OrgRoles[call.actor].permission
    [] call.op \in {"updateProject", "updateName", "toggleAutoCapitalization"} ->
         /\ call.permission # NotAsked
         /\ (call.permission.throws \/ EditSettings \notin call.permission.can)
    [] call.op = "updateVersionLimit" ->
         /\ call.permission # NotAsked
         /\ (call.permission.throws \/ ~call.permission.admin)
    [] call.op = "deleteProject" ->
         /\ call.permission # NotAsked
         /\ (call.permission.throws \/ DeleteProjectCap \notin call.permission.can)
    [] call.op = "upgradeProject" ->
         /\ call.permission # NotAsked
         /\ \/ call.permission.throws
            \/ DeleteProjectCap \notin call.permission.can
            \/ ~call.permission.admin
    [] call.op = "getAProject" ->
         /\ call.permission # NotAsked
         /\ call.permission.throws
    [] call.op = "getProjectUpgradeStatus" ->
         /\ call.permission # NotAsked
         /\ (call.permission.throws \/ ReadSecrets \notin call.permission.can)
    [] OTHER -> FALSE

\* C2: in every operation, a call whose permission check refuses the actor
\* ends in the step that checks, with a rejection, and that step leaves the
\* store, the plan cache and the upgrade queue as they were.
C2_DenialBeforeMutation ==
  [][\A c \in Calls :
       (calls[c].op = "idle" /\ calls'[c].op # "idle" /\ Denied(calls'[c]))
       => /\ calls'[c].pc = "done"
          /\ calls'[c].result \in Denials
          /\ db' = db
          /\ keyStore' = keyStore
          /\ projectQueue' = projectQueue]_vars

\* a deleteProject was refused for an existing project
C2_Witness ==
  \E c \in Calls :
    /\ Done(c, "deleteProject")
    /\ calls[c].result = "ForbiddenError"
    /\ DeleteProjectCap \notin calls[c].permission.can
    /\ db.projects # {}

\* C3: when createProject reads a plan with a limit and workspacesUsed >=
\* workspaceLimit, the call ends with the plan-limit error, no transaction is
\* opened (no id is drawn, no write is pending), the store is unchanged and
\* the plan cache is not invalidated; when the plan has no limit the call
\* goes on to its transaction.
C3_PlanLimit ==
  [][\A c \in Calls :
       (calls[c].op = "createProject" /\ calls[c].pc = "getPlan" /\ calls'[c] # calls[c])
       => LET orgId == calls[c].actorOrgId
              plan == getPlan(db, keyStore, workspaceLimit, orgId)
          IN /\ (plan.workspaceLimit # NoLimit /\ plan.workspacesUsed >= plan.workspaceLimit)
                => /\ calls'[c].pc = "done"
                   /\ calls'[c].result = PlanLimitError
                   /\ calls'[c].projectId = Null
                   /\ calls'[c].tx = EmptyTx
                   /\ calls'[c].deletedItems = <<>>
                   /\ db' = db
                   /\ usedIds' = usedIds
                   /\ keyStore'[orgId] # Absent
             /\ plan.workspaceLimit = NoLimit => calls'[c].pc = "transaction"]_vars

\* a createProject was refused at the limit of one project
C3_Witness ==
  \E c \in Calls :
    /\ Done(c, "createProject")
    /\ calls[c].result = PlanLimitError
    /\ workspaceLimit = 1
    /\ Cardinality(db.projects) = 1

\* the rules p are a proper part of the rules q
StrictlyWeaker(p, q) == p \subseteq q /\ p # q
WeakIdentity(a) ==
  a \in Identities /\ StrictlyWeaker(OrgRoles[a].permission, MemberRolePermission)

\* C4: a createProject by an identity whose organization permission is
\* strictly weaker than the permission it is compared with (the role Member)
\* never succeeds; when it reaches the comparison it fails with the
\* privilege error; no row of the attempt and no membership of such an
\* identity is in the store.
C4_NoEscalation ==
  /\ \A c \in Calls :
       (Done(c, "createProject") /\ WeakIdentity(calls[c].actor))
       => /\ calls[c].result # "ok"
          /\ calls[c].step = Len(Steps) => calls[c].result = EscalationError
          /\ NoRowsOf(db, calls[c].projectId, calls[c].ghostUserId)
  /\ \A m \in db.identityProjectMemberships : ~WeakIdentity(m.identityId)

\* a weak identity passed the create permission and was refused in the
\* transaction
C4_Witness ==
  \E c \in Calls :
    /\ Done(c, "createProject")
    /\ WeakIdentity(calls[c].actor)
    /\ calls[c].result = EscalationError

\* the ghost users that are members of the project
Custodians(d, projectId) ==
  {u \in d.users :
     /\ u.isGhost
     /\ \E m \in d.projectMemberships : m.userId = u.id /\ m.projectId = projectId}

\* C5: in every state, after any creates, updates and deletes, each project
\* has exactly one ghost user; its membership has the role Admin and no
\* other; the project has exactly one bot and exactly one key whose
\* receiver is the ghost user.
C5_OneCustodian ==
  \A p \in db.projects :
    /\ Cardinality(Custodians(db, p.id)) = 1
    /\ \A g \in Custodians(db, p.id) :
         /\ \E r \in db.projectUserMembershipRoles :
              r.projectMembershipId = <<g.id, p.id>>
         /\ \A r \in db.projectUserMembershipRoles :
              r.projectMembershipId = <<g.id, p.id>> => r.role = Admin
         /\ Cardinality({k \in db.projectKeys :
                           k.projectId = p.id /\ k.receiverId = g.id}) = 1
    /\ Cardinality({b \in db.projectBots : b.projectId = p.id}) = 1

\* a project that was created and then renamed
C5_Witness ==
  \E p \in db.projects : p.name \in NewNames

\* what the receiver of a key row reads with its private key
Unwrap(k) ==
  decryptAsymmetric(k.encryptedKey, PublicKey(k.senderId), PrivateKey(k.receiverId))

\* C6: after a successful createProject by a user, the project has exactly
\* two keys, one received by the ghost user and one by the user, both sent by
\* the ghost user, and both unwrap to the same project key.
C6_TwoGrants ==
  \A c \in Calls :
    (Done(c, "createProject") /\ calls[c].result = "ok" /\ calls[c].actor \in Users)
    => LET grants == {k \in db.projectKeys : k.projectId = calls[c].projectId}
       IN /\ Cardinality(grants) = 2
          /\ {k.receiverId : k \in grants} = {calls[c].ghostUserId, calls[c].actor}
          /\ \A k \in grants : k.senderId = calls[c].ghostUserId
          /\ \A k \in grants : Unwrap(k) # "garbage"
          /\ \A k1, k2 \in grants : Unwrap(k1) = Unwrap(k2)

\* a user created a project
C6_Witness ==
  \E c \in Calls :
    /\ Done(c, "createProject")
    /\ calls[c].result = "ok"
    /\ calls[c].actor \in Users

\* the keys of the project received by the principal
GrantsOf(d, projectId, principal) ==
  {k \in d.projectKeys : k.projectId = projectId /\ k.receiverId = principal}
UserMembers(d, projectId) ==
  {m.userId : m \in {x \in d.projectMemberships : x.projectId = projectId}}
IdentityMembers(d, projectId) ==
  {m.identityId : m \in {x \in d.identityProjectMemberships : x.projectId = projectId}}

\* C7 as the specification states it: every member of a project, user or
\* identity, holds exactly one key of the project, sent by a holder of a key.
C7_EveryMemberOneGrant ==
  \A p \in db.projects :
    \A x \in UserMembers(db, p.id) \cup IdentityMembers(db, p.id) :
      /\ Cardinality(GrantsOf(db, p.id, x)) = 1
      /\ \A k \in GrantsOf(db, p.id, x) : GrantsOf(db, p.id, k.senderId) # {}

\* C7: every user member of a project (the ghost user, the user that created
\* it) holds exactly one key of the project, sent by the project's ghost
\* user, who holds a key; an identity member holds no key.
C7_EveryUserMemberOneGrant ==
  \A p \in db.projects :
    /\ \A x \in UserMembers(db, p.id) :
         /\ Cardinality(GrantsOf(db, p.id, x)) = 1
         /\ \A k \in GrantsOf(db, p.id, x) :
              /\ k.senderId \in {g.id : g \in Custodians(db, p.id)}
              /\ GrantsOf(db, p.id, k.senderId) # {}
    /\ \A x \in IdentityMembers(db, p.id) : GrantsOf(db, p.id, x) = {}

\* a project created by a user and a project created by an identity
C7_Witness ==
  /\ \E p \in db.projects : UserMembers(db, p.id) \cap Users # {}
  /\ \E p \in db.projects : IdentityMembers(db, p.id) # {}

\* C8 as the specification states it: after a successful deleteProject of a
\* project that had a ghost user, neither the project row nor that ghost
\* user is in the store.
C8_DeleteRemovesCustodian ==
  \A c \in Calls :
    (Done(c, "deleteProject") /\ calls[c].result = "ok" /\ calls[c].ghostUserId # Null)
    => /\ \A p \in db.projects : p.id # calls[c].projectId
       /\ \A u \in db.users : u.id # calls[c].ghostUserId

\* a successful deleteProject left the project's ghost user in the store,
\* member of no project
C8_OrphanedCustodian ==
  \E c \in Calls :
    /\ Done(c, "deleteProject")
    /\ calls[c].result = "ok"
    /\ \A p \in db.projects : p.id # calls[c].projectId
    /\ \E u \in db.users : u.id = calls[c].ghostUserId /\ u.isGhost
    /\ \A m \in db.projectMemberships : m.userId # calls[c].ghostUserId

\* C9: a deleteProject of an existing project succeeds unless the storage
\* or the cache fails, whether its ghost user is there, is gone, or the
\* lookup of the ghost user throws: the project row is deleted, the deleted
\* project is returned and the cache entry is dropped (it is the entry of
\* the project's organization when the actor's organization is that one).
C9_MissingCustodianTolerated ==
  \A c \in Calls :
    ( /\ Done(c, "deleteProject")
      /\ calls[c].projectId # Null
      /\ calls[c].result \notin {"DatabaseError", "KeyStoreError"} )
    => /\ calls[c].result = "ok"
       /\ calls[c].ret = calls[c].projectId
       /\ \A p \in db.projects : p.id # calls[c].projectId
       /\ Len(calls[c].deletedItems) = 1
       /\ calls[c].actorOrgId = calls[c].projectOrgId
            => keyStore[calls[c].projectOrgId] = Absent

\* a project whose ghost user was removed from outside was deleted
C9_Witness ==
  \E c \in Calls :
    /\ Done(c, "deleteProject")
    /\ calls[c].result = "ok"
    /\ calls[c].ghostUserId = Null

\* C10 as the specification states it: a successful createProject and a
\* successful deleteProject drop the plan cache entry of the organization
\* that owns the project, once; a failed one drops nothing.
C10_InvalidatesOwnerOnce ==
  \A c \in Calls :
    (calls[c].pc = "done" /\ calls[c].op \in {"createProject", "deleteProject"})
    => IF calls[c].result = "ok"
       THEN calls[c].deletedItems = <<calls[c].projectOrgId>>
       ELSE calls[c].deletedItems = <<>>

\* a successful deleteProject dropped another key than the owner's: the
\* cache still counts a project for an organization that has none
C10_StaleUsage ==
  \E c \in Calls :
    /\ Done(c, "deleteProject")
    /\ calls[c].result = "ok"
    /\ calls[c].deletedItems # <<calls[c].projectOrgId>>
    /\ keyStore[calls[c].projectOrgId] = 1
    /\ ProjectsOfOrg(db, calls[c].projectOrgId) = {}

\* C11: an upgradeProject whose actor may not delete the project or is not
\* Admin of it ends with an authorization error and the queue is as it was;
\* the queue changes only in a step of an upgradeProject that passed both
\* gates, which ends ok and appends one request: the project, the actor, and
\* the actor's private key sealed.
C11_UpgradeGates ==
  [][/\ \A c \in Calls :
          (calls[c].op = "idle" /\ calls'[c].op = "upgradeProject")
          => LET q == calls'[c].permission
                 passed == /\ ~q.throws
                           /\ DeleteProjectCap \in q.can
                           /\ q.admin
             IN IF passed
                THEN /\ calls'[c].result = "ok"
                     /\ Len(projectQueue') = Len(projectQueue) + 1
                ELSE /\ calls'[c].result \in Denials
                     /\ projectQueue' = projectQueue
     /\ projectQueue' # projectQueue
          => /\ \E c \in Calls : calls[c].op = "idle" /\ calls'[c].op = "upgradeProject"
                               /\ calls'[c].result = "ok"
             /\ \E request \in [projectId : AllProjectIds, startedByUserId : Actors,
                                 encryptedPrivateKey : {infisicalSymmetricEncypt(PrivateKey(a)) : a \in Actors}] :
                  /\ projectQueue' = Append(projectQueue, request)
                  /\ request.encryptedPrivateKey =
                       infisicalSymmetricEncypt(PrivateKey(request.startedByUserId))
                  /\ \E p \in db.projects : p.id = request.projectId]_vars

\* an Admin's upgradeProject put its request in the queue
C11_Witness ==
  \E c \in Calls :
    /\ Done(c, "upgradeProject")
    /\ calls[c].result = "ok"
    /\ Len(projectQueue) = 1

\* the rows of the tables that belong to the project
RowsOfProject(d, projectId) ==
  [t \in Tables \ {"users"} |-> {r \in d[t] : ProjectOfRow(t, r) = projectId}]

\* none of the rows of a project
NoneOf(d, projectId) ==
  \A t \in Tables \ {"users"} : RowsOfProject(d, projectId)[t] = {}

\* all the rows a createProject commits: the project, the ghost user's
\* membership and role, the blind index, the environments and their root
\* folders, the ghost user's key, the bot, and the membership of the actor (a
\* user with its role and key, or an identity with its role)
AllOf(d, projectId) ==
  LET rows == RowsOfProject(d, projectId)
      ghosts == {m.userId : m \in rows.projectMemberships} \ Users
      users == {m.userId : m \in rows.projectMemberships} \cap Users
      identities == {m.identityId : m \in rows.identityProjectMemberships}
  IN /\ Cardinality(rows.projects) = 1
     /\ Cardinality(ghosts) = 1
     /\ \A g \in ghosts :
          /\ \E r \in rows.projectUserMembershipRoles :
               r.projectMembershipId = <<g, projectId>>
          /\ \E k \in rows.projectKeys : k.receiverId = g
     /\ Cardinality(rows.secretBlindIndexes) = 1
     /\ Cardinality(rows.projectEnvs) = Len(DEFAULT_PROJECT_ENVS)
     /\ \A e \in rows.projectEnvs : \E f \in rows.secretFolders : f.envId = e.id
     /\ Cardinality(rows.projectBots) = 1
     /\ Cardinality(users) + Cardinality(identities) = 1
     /\ \A u \in users :
          /\ \E r \in rows.projectUserMembershipRoles :
               r.projectMembershipId = <<u, projectId>>
          /\ \E k \in rows.projectKeys : k.receiverId = u
     /\ \A i \in identities :
          \E r \in rows.identityProjectMembershipRoles :
            r.projectMembershipId = <<i, projectId>>

ReadOps == {"getAProject", "getProjects", "getProjectUpgradeStatus"}

\* C12: while createProject and deleteProject run interleaved with reads,
\* the committed store holds for every project id either none of the rows
\* of that project or all of them, in every state; so a read that returns a
\* project returns one that has all its rows, and a read that finds no
\* project by its id leaves none of its rows to be seen.
C12_ReadersSeeAllOrNothing ==
  /\ \A id \in AllProjectIds : NoneOf(db, id) \/ AllOf(db, id)
  /\ \A c \in Calls :
       (calls[c].pc = "done" /\ calls[c].op \in ReadOps)
       => /\ \A p \in calls[c].seen : p \in db.projects /\ AllOf(db, p.id)
          /\ (calls[c].result = "ok" /\ calls[c].projectId # Null)
               => AllOf(db, calls[c].projectId)

\* a read returned a project while a createProject had written all its rows
\* and not yet committed them: the store shows none of the pending rows
C12_Witness ==
  \E c, w \in Calls :
    /\ Done(c, "getAProject") /\ calls[c].seen # {}
    /\ calls[w].op = "createProject" /\ calls[w].pc = "commit"
    /\ calls[w].tx.ins.projects # {}
    /\ NoneOf(db, calls[w].projectId)

\* C13: with createProject calls interleaved, a transaction commits whatever
\* the other call read or committed meanwhile; when the usage figure the call
\* read at line 120 still counts every committed project of the organization
\* as it commits (no other create committed in between, no stale cache), the
\* organization has at most workspaceLimit projects after the commit.
C13_LimitHoldsWithoutOverlap ==
  [][\A c \in Calls :
       ( /\ calls[c].op = "createProject"
         /\ calls[c].pc = "commit"
         /\ calls'[c].pc = "deleteItem"
         /\ workspaceLimit # NoLimit
         /\ calls[c].workspacesUsed =
              Cardinality(ProjectsOfOrg(db, calls[c].projectOrgId)) )
       => /\ Cardinality(ProjectsOfOrg(db, calls[c].projectOrgId)) < workspaceLimit
          /\ Cardinality(ProjectsOfOrg(db', calls[c].projectOrgId)) <= workspaceLimit]_vars

\* two createProject calls of one organization both read a usage under the
\* limit and both committed: the organization has more projects than its
\* plan allows
C13_Witness ==
  \E c, w \in Calls :
    /\ c # w
    /\ calls[c].op = "createProject" /\ calls[c].pc = "deleteItem"
    /\ calls[w].op = "createProject" /\ calls[w].pc = "deleteItem"
    /\ calls[c].projectOrgId = calls[w].projectOrgId
    /\ workspaceLimit # NoLimit
    /\ calls[c].workspacesUsed < workspaceLimit
    /\ calls[w].workspacesUsed < workspaceLimit
    /\ Cardinality(ProjectsOfOrg(db, calls[c].projectOrgId)) > workspaceLimit

\* C14: the upgrade status of a project starts unset and changes only by a
\* step of the queue's worker, from unset to IN_PROGRESS and from IN_PROGRESS
\* to COMPLETED or FAILED; no step of a call of the service changes it
\* (upgradeProject appends to the queue and leaves the store as it is); and a
\* successful getProjectUpgradeStatus leaves the store as it is and returns
\* the status the project has, null when it has none.
C14_StatusOnlyRead ==
  [][/\ \A p \in db.projects : \A n \in db'.projects :
          (n.id = p.id /\ n.upgradeStatus # p.upgradeStatus)
          => /\ calls' = calls
             /\ n.upgradeStatus \in NextUpgradeStatus(p.upgradeStatus)
     /\ \A n \in db'.projects :
          (\A p \in db.projects : p.id # n.id) => n.upgradeStatus = Null
     /\ \A c \in Calls :
          (calls[c].op = "idle" /\ calls'[c].op = "upgradeProject") => db' = db
     /\ \A c \in Calls :
          (calls[c].op = "idle" /\ calls'[c].op = "getProjectUpgradeStatus")
          => /\ db' = db
             /\ projectQueue' = projectQueue
             /\ calls'[c].result = "ok"
                  => \E p \in db.projects :
                       /\ p.id = calls'[c].projectId
                       /\ calls'[c].ret = p.upgradeStatus]_vars

\* the status of a project was read after the worker had completed its
\* upgrade
C14_Witness ==
  \E c \in Calls :
    /\ Done(c, "getProjectUpgradeStatus")
    /\ calls[c].result = "ok"
    /\ calls[c].ret = COMPLETED

\* C15: a getAProject returns a project only when getProjectPermission
\* answered for the actor and that project without rejecting (the actor has
\* access to the project), and then it returns the project the selector
\* names; when getProjectPermission rejects the actor the call ends with
\* that rejection and returns no project.
C15_ReadNeedsAccess ==
  \A c \in Calls :
    Done(c, "getAProject")
    => /\ (calls[c].ret # Null \/ calls[c].seen # {})
            => /\ calls[c].permission # NotAsked
               /\ ~calls[c].permission.throws
               /\ calls[c].result = "ok"
               /\ \E p \in db.projects : p.id = calls[c].ret /\ calls[c].seen = {p}
       /\ calls[c].permission.throws
            => /\ calls[c].result = "UnauthorizedError"
               /\ calls[c].ret = Null
               /\ calls[c].seen = {}

\* an actor without access asked for an existing project and was refused
C15_Witness ==
  \E c \in Calls :
    /\ Done(c, "getAProject")
    /\ calls[c].permission.throws
    /\ calls[c].result = "UnauthorizedError"
    /\ db.projects # {}

\* the stores differ in nothing but the pitVersionLimit of the project
OnlyVersionLimitChanged(d, e, projectId) ==
  /\ \A t \in Tables \ {"projects"} : e[t] = d[t]
  /\ {p.id : p \in e.projects} = {p.id : p \in d.projects}
  /\ \A p \in d.projects : \A n \in e.projects :
       n.id = p.id
       => IF p.id = projectId
          THEN [n EXCEPT !.pitVersionLimit = p.pitVersionLimit] = p
          ELSE n = p

C18_TwoOutcomes ==
  \A c \in Calls :
    Done(c, "createProject")
    => \/ /\ calls[c].result = "ok"
          /\ calls[c].ret = calls[c].projectId
          /\ AllOf(db, calls[c].projectId)
       \/ /\ calls[c].result # "ok"
          /\ calls[c].ret = Null
          /\ NoRowsOf(db, calls[c].projectId, calls[c].ghostUserId)

\* a createProject ended with the error of the cache invalidation and
\* returned nothing, and all the rows of its project are committed
C18_ErrorAfterCommit ==
  \E c \in Calls :
    /\ Done(c, "createProject")
    /\ calls[c].result = "KeyStoreError"
    /\ calls[c].ret = Null
    /\ AllOf(db, calls[c].projectId)
    /\ \E u \in db.users : u.id = calls[c].ghostUserId

\* the authorization and quota errors of createProject
CreateRefusals == {"ForbiddenError", PlanLimitError, EscalationError}

\* C19 as the specification states it: each of the three errors ends the
\* call before its transaction has begun: no id was drawn and no step of the
\* transaction has run.
C19_RefusedBeforeTransaction ==
  \A c \in Calls :
    (Done(c, "createProject") /\ calls[c].result \in CreateRefusals)
    => /\ calls[c].projectId = Null
       /\ calls[c].step = 0

\* C19: the missing create-workspace permission ends the call in its first
\* step and the plan limit ends it at the plan check, both before the
\* transaction has begun; the privilege error of an identity is raised in the
\* last step of the transaction, after the rows of the seven steps before it
\* were written with the transaction, and the rollback leaves none of them.
\* Each of the three leaves the store as it was.
C19_RefusalPoints ==
  [][\A c \in Calls :
       ( /\ calls'[c].op = "createProject"
         /\ calls[c].pc # "done" /\ calls'[c].pc = "done"
         /\ calls'[c].result \in CreateRefusals )
       => /\ db' = db
          /\ calls'[c].deletedItems = <<>>
          /\ calls'[c].result = "ForbiddenError"
               => /\ calls[c].op = "idle"
                  /\ calls'[c].projectId = Null /\ calls'[c].step = 0
          /\ calls'[c].result = PlanLimitError
               => /\ calls[c].pc = "getPlan"
                  /\ calls'[c].projectId = Null /\ calls'[c].step = 0
          /\ calls'[c].result = EscalationError
               => /\ calls[c].pc = "transaction"
                  /\ calls'[c].actor \in Identities
                  /\ calls'[c].step = Len(Steps)
                  /\ NoRowsOf(db', calls'[c].projectId, calls'[c].ghostUserId)]_vars

\* an identity was refused for its privilege in the last step of the
\* transaction, in a store that holds a project
C19_Witness ==
  \E c \in Calls :
    /\ Done(c, "createProject")
    /\ calls[c].result = EscalationError
    /\ calls[c].step = Len(Steps)
    /\ calls[c].projectId # Null
    /\ db.projects # {}

\* C20: the role row of every identity that created a project is Custom with
\* the identity's custom organization role as its reference exactly when the
\* identity's organization role is a custom role, and Admin with no reference
\* otherwise.
C20_IdentityRoleFollowsOrgRole ==
  \A r \in db.identityProjectMembershipRoles :
    LET identityId == r.projectMembershipId[1]
    IN IF OrgRoles[identityId].role = "custom"
       THEN r.role = Custom /\ r.customRoleId = OrgRoles[identityId].customRole
       ELSE r.role = Admin /\ r.customRoleId = Null

\* an identity whose organization role is a custom role created a project
\* and holds the role Admin in it, with no reference to its custom role
C20_AdminForCustomRole ==
  \E c \in Calls, r \in db.identityProjectMembershipRoles :
    /\ Done(c, "createProject") /\ calls[c].result = "ok"
    /\ r.projectMembershipId = <<calls[c].actor, calls[c].projectId>>
    /\ calls[c].actor \in Identities
    /\ OrgRoles[calls[c].actor].role = "custom"
    /\ OrgRoles[calls[c].actor].customRole # Null
    /\ r.role = Admin /\ r.customRoleId = Null

\* the environments of a project, and the root folders of an environment
EnvsOf(d, projectId) == {e \in d.projectEnvs : e.projectId = projectId}
FoldersOf(d, envId) == {f \in d.secretFolders : f.envId = envId}
\* an environment row without its keys
Named(e) == <<e.name, e.slug, e.position>>

\* C21: every project in the store has exactly three environments,
\* Development (dev) at position 1, Staging (staging) at position 2 and
\* Production (prod) at position 3, each with exactly one folder, the root
\* folder at version 1; a createProject that succeeded returns these three
\* rows, in that order.
C21_DefaultEnvironments ==
  /\ \A p \in db.projects :
       /\ Cardinality(EnvsOf(db, p.id)) = 3
       /\ {Named(e) : e \in EnvsOf(db, p.id)} =
            { <<"Development", "dev", 1>>, <<"Staging", "staging", 2>>,
              <<"Production", "prod", 3>> }
       /\ \A e \in EnvsOf(db, p.id) :
            FoldersOf(db, e.id) = {[name |-> "root", envId |-> e.id, version |-> 1]}
  /\ \A c \in Calls :
       (Done(c, "createProject") /\ calls[c].result = "ok")
       => /\ Len(calls[c].environments) = 3
          /\ [i \in 1..3 |-> Named(calls[c].environments[i])] =
               << <<"Development", "dev", 1>>, <<"Staging", "staging", 2>>,
                  <<"Production", "prod", 3>> >>
          /\ {calls[c].environments[i] : i \in 1..3} = EnvsOf(db, calls[c].ret)
  /\ \A c \in Calls :
       (calls[c].pc = "done" /\ calls[c].result # "ok") => calls[c].environments = <<>>

\* a createProject succeeded and returned its environments, which are in the
\* store with their folders
C21_Witness ==
  \E c \in Calls :
    /\ Done(c, "createProject") /\ calls[c].result = "ok"
    /\ calls[c].environments # <<>>
    /\ \E p \in db.projects :
         /\ p.id = calls[c].ret
         /\ EnvsOf(db, p.id) # {}
         /\ \A e \in EnvsOf(db, p.id) : FoldersOf(db, e.id) # {}

\* the members of a project that are not its ghost user
OtherMembers(d, projectId) ==
  (UserMembers(d, projectId) \ {g.id : g \in Custodians(d, projectId)})
    \cup IdentityMembers(d, projectId)

\* C22: when a createProject has succeeded, its actor is a member of the
\* project it returned: a user holds a row of projectMemberships, an identity
\* a row of identityProjectMemberships; and every project in the store has a
\* member that is not its ghost user.
C22_CreatorIsMember ==
  /\ \A c \in Calls :
       (Done(c, "createProject") /\ calls[c].result = "ok")
       => IF ActorType(calls[c].actor) = USER
          THEN \E m \in db.projectMemberships :
                 m.userId = calls[c].actor /\ m.projectId = calls[c].ret
          ELSE \E m \in db.identityProjectMemberships :
                 m.identityId = calls[c].actor /\ m.projectId = calls[c].ret
  /\ \A p \in db.projects : OtherMembers(db, p.id) # {}

\* the store holds a project created by a user and a project created by an
\* identity, and the createProject that has just succeeded made one of them
C22_Witness ==
  /\ \E c \in Calls :
       /\ Done(c, "createProject") /\ calls[c].result = "ok"
       /\ calls[c].actor \in OtherMembers(db, calls[c].ret)
  /\ \E p \in db.projects : OtherMembers(db, p.id) \cap Users # {}
  /\ \E p \in db.projects : OtherMembers(db, p.id) \cap Identities # {}

====
